---- MODULE Spec2Model ----
(***************************************************************************)
(* Model of the sunset-precipitation figure code:                          *)
(*   src/analysis/data_loader.py        axis limits, spatial loader, table *)
(*   src/analysis/figure1_components.py panel builders of the notebook     *)
(*   src/composite_figure1.py           the composite figure script        *)
(*                                                                         *)
(* One behaviour is one top-level call (variable call) with its inputs     *)
(* drawn in Init.  Observation values are held in hundredths (0.1 is 10),  *)
(* table percentages in tenths (64.8 is 648); Python floats that the code  *)
(* computes are IEEE-754 binary64 values, held as sign, exponent and the   *)
(* 53 significand bits (the leading 1 and four 13-bit limbs) and rounded   *)
(* to nearest-even as the hardware does.                                   *)
(***************************************************************************)
EXTENDS Integers, Sequences, FiniteSets, TLC

(***************************************************************************)
(* Python float arithmetic (binary64), as far as the code uses it:         *)
(* int / int, float * int, comparison.                                     *)
(***************************************************************************)

\* a Python float keeps 53 significand bits: the leading 1, then NLimbs
\* limbs of LimbBits bits each, most significant first
LimbBits == 13

NLimbs == 4

RECURSIVE Pow2(_)
Pow2(k) == IF k = 0 THEN 1 ELSE 2 * Pow2(k - 1)

Base == Pow2(LimbBits)

\* the float 0.0
DZero == [s |-> 0, e |-> 0, m |-> <<>>]

Abs(a) == IF a < 0 THEN -a ELSE a

RECURSIVE ShiftUp(_, _)
\* least k with a * 2^k >= b
ShiftUp(a, b) == IF a >= b THEN 0 ELSE 1 + ShiftUp(2 * a, b)

RECURSIVE ShiftDown(_, _)
\* greatest k with b * 2^k <= a, for a >= b
ShiftDown(a, b) == IF 2 * b > a THEN 0 ELSE 1 + ShiftDown(a, 2 * b)

RECURSIVE DivLimbs(_, _, _)
\* the next n limbs of the quotient r / B (r < B), most significant first
DivLimbs(r, B, n) ==
    IF n = 0 THEN <<>>
    ELSE <<(r * Base) \div B>> \o DivLimbs((r * Base) % B, B, n - 1)

RECURSIVE DivRem(_, _, _)
\* the remainder left after n limbs of the quotient r / B
DivRem(r, B, n) == IF n = 0 THEN r ELSE DivRem((r * Base) % B, B, n - 1)

RECURSIVE IncLimbs(_, _)
\* m[1..i] plus one in the last place; the leading place m[1] takes the carry
IncLimbs(m, i) ==
    IF i = 1 THEN <<m[1] + 1>>
    ELSE IF m[i] + 1 < Base THEN SubSeq(m, 1, i - 1) \o <<m[i] + 1>>
         ELSE IncLimbs(m, i - 1) \o <<0>>

\* a significand after rounding: up moves to the next float, carrying into
\* the exponent when the significand was all ones
RoundLimbs(s, e, m, up) ==
    IF ~up THEN [s |-> s, e |-> e, m |-> m]
    ELSE LET inc == IncLimbs(m, Len(m))
         IN  IF inc[1] = 2
             THEN [s |-> s, e |-> e + 1, m |-> <<1>> \o SubSeq(inc, 2, Len(inc))]
             ELSE [s |-> s, e |-> e, m |-> inc]

\* Python a / b for ints (true division, correctly rounded), b # 0
FDiv(a, b) ==
    IF a = 0 THEN DZero
    ELSE LET x   == Abs(a)
             y   == Abs(b)
             ku  == ShiftUp(x, y)
             kd  == IF x >= y THEN ShiftDown(x, y) ELSE 0
             A   == x * Pow2(ku)
             B   == y * Pow2(kd)
             m   == <<1>> \o DivLimbs(A - B, B, NLimbs)
             r   == DivRem(A - B, B, NLimbs)
             up  == 2 * r > B \/ (2 * r = B /\ m[NLimbs + 1] % 2 = 1)
         IN  RoundLimbs(IF (a < 0) # (b < 0) THEN 1 ELSE 0, kd - ku, m, up)

\* the float of a small int
DoubleOfInt(k) == FDiv(k, 1)

RECURSIVE MulLimbs(_, _, _, _)
\* m[1..i] times k plus carry, limb by limb; the leading place is not reduced
MulLimbs(m, i, carry, k) ==
    LET t == m[i] * k + carry
    IN  IF i = 1 THEN <<t>>
        ELSE MulLimbs(m, i - 1, t \div Base, k) \o <<t % Base>>

RECURSIVE BitLen(_)
BitLen(n) == IF n = 0 THEN 0 ELSE 1 + BitLen(n \div 2)

\* Python x * k for a float x and an int 0 < k < Base (k converts exactly)
FMulInt(x, k) ==
    IF x.m = <<>> THEN DZero
    ELSE LET P       == MulLimbs(x.m, NLimbs + 1, 0, k)
             sh      == BitLen(P[1]) - 1
             lo      == Pow2(sh)
             hi      == Pow2(LimbBits - sh)
             kept    == [j \in 1..(NLimbs + 1) |->
                            IF j = 1 THEN 1
                            ELSE (P[j - 1] % lo) * hi + (P[j] \div lo)]
             dropped == P[NLimbs + 1] % lo
             guard   == IF sh = 0 THEN 0 ELSE dropped \div Pow2(sh - 1)
             sticky  == IF sh = 0 THEN 0 ELSE dropped % Pow2(sh - 1)
             up      == guard = 1 /\ (sticky # 0 \/ kept[NLimbs + 1] % 2 = 1)
         IN  RoundLimbs(x.s, x.e + sh, kept, up)

RECURSIVE LimbsLess(_, _, _)
\* a < b for two significands, compared from place i on
LimbsLess(a, b, i) ==
    IF i > Len(a) THEN FALSE
    ELSE IF a[i] # b[i] THEN a[i] < b[i]
         ELSE LimbsLess(a, b, i + 1)

\* x < y for two non-negative floats
DLessPos(x, y) ==
    IF y.m = <<>> THEN FALSE
    ELSE IF x.m = <<>> THEN TRUE
         ELSE IF x.e # y.e THEN x.e < y.e
              ELSE LimbsLess(x.m, y.m, 1)

\* x <= y
DLe(x, y) ==
    IF x.s = 1 /\ x.m # <<>> THEN (y.s = 0 \/ y.m = <<>> \/ ~DLessPos(x, y))
    ELSE (y.s = 0 \/ y.m = <<>>) /\ ~DLessPos(y, x)

\* the next float away from zero
DSucc(x) == RoundLimbs(x.s, x.e, x.m, TRUE)

\* x and y are the same float or neighbours
DAdjacent(x, y) ==
    x = y \/ (x.m # <<>> /\ y.m # <<>> /\ x.s = y.s /\ (DSucc(x) = y \/ DSucc(y) = x))

(***************************************************************************)
(* Bounds of the model.                                                    *)
(***************************************************************************)

\* rows of a spatial dataset drawn in Init (the 10-city dataset comes on top)
MaxN == 3

\* per-year files that may be absent when all years are loaded
MaxMissing == 2

(***************************************************************************)
(* Data: spatial rows are <<lat, lon, value>>, value in hundredths.        *)
(***************************************************************************)

\* the literals of the classifier's comparisons: -0.1 and 0.1
T1 == -10

T2 == 10

\* values on, between and beyond the three cut points
Values == {-20, -10, -5, 0, 5, 10, 20}

\* the 10-city dataset of the specification's worked example
TenCityValues == <<-20, -15, -5, -1, 0, 2, 8, 10, 50, 100>>

\* rows of a file: the i-th city sits at its own coordinates
RowsOf(values) == [i \in 1..Len(values) |-> <<i, i, values[i]>>]

RECURSIVE SeqsUpTo(_, _)
\* all sequences over S of length at most n
SeqsUpTo(S, n) ==
    IF n = 0 THEN {<<>>}
    ELSE LET shorter == SeqsUpTo(S, n - 1)
         IN  shorter \cup {Append(q, x) : q \in {r \in shorter : Len(r) = n - 1}, x \in S}

Datasets == {RowsOf(v) : v \in SeqsUpTo(Values, MaxN)} \cup {RowsOf(TenCityValues)}

\* COLORS of both modules, channels in 255ths
COLORS ==
    [enhance_strong  |-> <<255, 120, 130>>,
     enhance_weak    |-> <<255, 179, 186>>,
     suppress_weak   |-> <<180, 210, 100>>,
     suppress_strong |-> <<120, 200, 150>>]

\* np.loadtxt on a file of whitespace-delimited rows (ndmin = 0 squeezes):
\* no row gives shape (0,), one row shape (3,), n rows shape (n, 3)
Loadtxt(rows) ==
    IF Len(rows) = 0 THEN [shape |-> <<0>>, rows |-> rows]
    ELSE IF Len(rows) = 1 THEN [shape |-> <<3>>, rows |-> rows]
         ELSE [shape |-> <<Len(rows), 3>>, rows |-> rows]

\* a two-dimensional array handed over by a caller
Array2D(rows) == [shape |-> <<Len(rows), 3>>, rows |-> rows]

\* len(a): the first dimension
PyLen(a) == a.shape[1]

RemoveAt(q, i) == SubSeq(q, 1, i - 1) \o SubSeq(q, i + 1, Len(q))

\* a variant that leaves the rows in file order
ArgsortSkipped(rows) == {rows}

RECURSIVE ArgsortChoices(_)
\* a[a[:, 2].argsort()]: the rows in non-decreasing order of value.  The
\* default sort kind is not stable, so rows of equal value come in any order.
ArgsortChoices(rows) ==
    IF rows = <<>> THEN {<<>>}
    ELSE LET least == {i \in 1..Len(rows) :
                          \A j \in 1..Len(rows) : rows[i][3] <= rows[j][3]}
         IN  UNION {{<<rows[i]>> \o rest : rest \in ArgsortChoices(RemoveAt(rows, i))} :
                       i \in least}

(***************************************************************************)
(* The classifier loop, once per module.                                   *)
(***************************************************************************)

\* a variant whose intervals are closed at their upper end
PlotGlobalMapStepClosed(value, acc) ==
    IF value <= T1
    THEN [colors |-> Append(acc.colors, COLORS.enhance_strong), count |-> acc.count]
    ELSE IF value <= 0
    THEN [colors |-> Append(acc.colors, COLORS.enhance_weak), count |-> acc.count]
    ELSE IF value <= T2
    THEN [colors |-> Append(acc.colors, COLORS.suppress_weak), count |-> acc.count + 1]
    ELSE [colors |-> Append(acc.colors, COLORS.suppress_strong), count |-> acc.count + 1]

\* composite_figure1.plot_global_map, one pass of the for loop
PlotGlobalMapStep(value, acc) ==
    IF value < T1
    THEN [colors |-> Append(acc.colors, COLORS.enhance_strong), count |-> acc.count]
    ELSE IF value < 0
    THEN [colors |-> Append(acc.colors, COLORS.enhance_weak), count |-> acc.count]
    ELSE IF value < T2
    THEN [colors |-> Append(acc.colors, COLORS.suppress_weak), count |-> acc.count + 1]
    ELSE [colors |-> Append(acc.colors, COLORS.suppress_strong), count |-> acc.count + 1]

RECURSIVE PlotGlobalMapLoop(_, _, _)
PlotGlobalMapLoop(rows, i, acc) ==
    IF i > Len(rows) THEN acc
    ELSE PlotGlobalMapLoop(rows, i + 1, PlotGlobalMapStep(rows[i][3], acc))

\* a variant with four separate tests of open intervals: a value on a cut
\* point gets no colour
CreateGlobalMapOnlyStepOpen(value, acc) ==
    IF value < T1
    THEN [colors |-> Append(acc.colors, COLORS.enhance_strong), count |-> acc.count]
    ELSE IF T1 < value /\ value < 0
    THEN [colors |-> Append(acc.colors, COLORS.enhance_weak), count |-> acc.count]
    ELSE IF 0 < value /\ value < T2
    THEN [colors |-> Append(acc.colors, COLORS.suppress_weak), count |-> acc.count + 1]
    ELSE IF value > T2
    THEN [colors |-> Append(acc.colors, COLORS.suppress_strong), count |-> acc.count + 1]
    ELSE acc

\* a variant that puts zero with the negative values
CreateGlobalMapOnlyStepZero(value, acc) ==
    IF value < T1
    THEN [colors |-> Append(acc.colors, COLORS.enhance_strong), count |-> acc.count]
    ELSE IF value <= 0
    THEN [colors |-> Append(acc.colors, COLORS.enhance_weak), count |-> acc.count]
    ELSE IF value < T2
    THEN [colors |-> Append(acc.colors, COLORS.suppress_weak), count |-> acc.count + 1]
    ELSE [colors |-> Append(acc.colors, COLORS.suppress_strong), count |-> acc.count + 1]

\* figure1_components.create_global_map_only, one pass of the for loop
CreateGlobalMapOnlyStep(value, acc) ==
    IF value < T1
    THEN [colors |-> Append(acc.colors, COLORS.enhance_strong), count |-> acc.count]
    ELSE IF value < 0
    THEN [colors |-> Append(acc.colors, COLORS.enhance_weak), count |-> acc.count]
    ELSE IF value < T2
    THEN [colors |-> Append(acc.colors, COLORS.suppress_weak), count |-> acc.count + 1]
    ELSE [colors |-> Append(acc.colors, COLORS.suppress_strong), count |-> acc.count + 1]

RECURSIVE CreateGlobalMapOnlyLoop(_, _, _)
CreateGlobalMapOnlyLoop(rows, i, acc) ==
    IF i > Len(rows) THEN acc
    ELSE CreateGlobalMapOnlyLoop(rows, i + 1, CreateGlobalMapOnlyStep(rows[i][3], acc))

\* colors = [], enhancement_count = 0
EmptyAcc == [colors |-> <<>>, count |-> 0]

\* a variant that keeps the fraction
EnhancementFraction(count, total) == FDiv(count, total)

\* (enhancement_count / total) * 100
EnhancementPct(count, total) == FMulInt(FDiv(count, total), 100)

(***************************************************************************)
(* data_loader: the axis-limit tables (tenths), the 20-year table.         *)
(***************************************************************************)

FirstYear == 2001

LastYear == 2020

Years == FirstYear..LastYear

\* limits of get_y_axis_limits for data_type == 'urban_rural'
LimitsUrbanRural ==
    [low          |-> <<<<68, 98>>, <<70, 80, 90>>>>,
     moderate     |-> <<<<50, 80>>, <<50, 60, 70, 80>>>>,
     other        |-> <<<<80, 160>>, <<80, 100, 120, 140, 160>>>>,
     low_moderate |-> <<<<120, 180>>, <<120, 140, 160, 180>>>>,
     all          |-> <<<<200, 350>>, <<200, 250, 300, 350>>>>]

\* limits of get_y_axis_limits for every other data_type
LimitsTurban ==
    [low          |-> <<<<28, 42>>, <<30, 35, 40>>>>,
     moderate     |-> <<<<9, 13>>, <<9, 10, 11, 12, 13>>>>,
     other        |-> <<<<3, 7>>, <<3, 4, 5, 6, 7>>>>,
     low_moderate |-> <<<<35, 55>>, <<35, 40, 45, 50, 55>>>>,
     all          |-> <<<<40, 70>>, <<40, 50, 60, 70>>>>]

\* the default of limits.get
DefaultLimits == <<<<0, 100>>, <<0, 20, 40, 60, 80, 100>>>>

\* dict.get(key, default)
DictGet(d, key, default) == IF key \in DOMAIN d THEN d[key] ELSE default

\* a variant that knows the two documented data types and no other
GetYAxisLimitsTwoKinds(key, dtype) ==
    IF dtype = "urban_rural" THEN DictGet(LimitsUrbanRural, key, DefaultLimits)
    ELSE IF dtype = "turban" THEN DictGet(LimitsTurban, key, DefaultLimits)
    ELSE DefaultLimits

\* get_y_axis_limits(intensity_key, data_type)
GetYAxisLimits(key, dtype) ==
    LET limits == IF dtype = "urban_rural" THEN LimitsUrbanRural ELSE LimitsTurban
    IN  DictGet(limits, key, DefaultLimits)

IntensityKeys == {"low", "moderate", "other", "low_moderate", "all", "unknown_key", "Low", ""}

DataTypes == {"urban_rural", "turban", "urban_only", "rural"}

\* temporal_stability["n_cities"]
NCities ==
    <<491, 506, 494, 510, 524, 533, 527, 486, 523, 542,
      500, 530, 494, 491, 504, 500, 509, 487, 515, 514>>

\* temporal_stability["enhancement_pct"], in tenths
EnhancementPctColumn ==
    <<648, 630, 613, 620, 614, 598, 641, 617, 608, 603,
      598, 600, 630, 584, 599, 646, 639, 673, 590, 638>>

\* the DataFrame temporal_stability, or its first k rows
StabilityHead(k) ==
    [year            |-> [i \in 1..k |-> FirstYear + i - 1],
     n_cities        |-> SubSeq(NCities, 1, k),
     enhancement_pct |-> SubSeq(EnhancementPctColumn, 1, k)]

TemporalStability == StabilityHead(LastYear - FirstYear + 1)

RECURSIVE SeqSum(_, _)
SeqSum(q, i) == IF i = 0 THEN 0 ELSE q[i] + SeqSum(q, i - 1)

RECURSIVE SeqSumSq(_, _)
SeqSumSq(q, i) == IF i = 0 THEN 0 ELSE q[i] * q[i] + SeqSumSq(q, i - 1)

RECURSIVE SeqMin(_, _)
SeqMin(q, i) ==
    IF i = 1 THEN q[1]
    ELSE LET rest == SeqMin(q, i - 1) IN IF q[i] < rest THEN q[i] ELSE rest

RECURSIVE SeqMax(_, _)
SeqMax(q, i) ==
    IF i = 1 THEN q[1]
    ELSE LET rest == SeqMax(q, i - 1) IN IF q[i] > rest THEN q[i] ELSE rest

\* a variant that divides by one less than the count
SeriesMeanShort(q) ==
    IF Len(q) < 2 THEN [nan |-> TRUE, num |-> 0, den |-> 1]
    ELSE [nan |-> FALSE, num |-> SeqSum(q, Len(q)), den |-> Len(q) - 1]

\* Series.mean(): the sum over the count, kept as a fraction; NaN when empty.
\* The float sum is off the exact one by less than 1e-11, far below every
\* tolerance and print width used with it.
SeriesMean(q) ==
    IF Len(q) = 0 THEN [nan |-> TRUE, num |-> 0, den |-> 1]
    ELSE [nan |-> FALSE, num |-> SeqSum(q, Len(q)), den |-> Len(q)]

\* Series.std() squared (ddof = 1), as a fraction; NaN below two entries
SeriesVar(q) ==
    IF Len(q) < 2 THEN [nan |-> TRUE, num |-> 0, den |-> 1]
    ELSE [nan |-> FALSE,
          num |-> Len(q) * SeqSumSq(q, Len(q)) - SeqSum(q, Len(q)) * SeqSum(q, Len(q)),
          den |-> Len(q) * (Len(q) - 1)]

\* Series.min()
SeriesMin(q) ==
    IF Len(q) = 0 THEN [nan |-> TRUE, v |-> 0] ELSE [nan |-> FALSE, v |-> SeqMin(q, Len(q))]

\* Series.max()
SeriesMax(q) ==
    IF Len(q) = 0 THEN [nan |-> TRUE, v |-> 0] ELSE [nan |-> FALSE, v |-> SeqMax(q, Len(q))]

(***************************************************************************)
(* Drawing: every call on an axes or on pyplot is one entry of log.        *)
(* Fractional positions are in hundredths of the axes.                     *)
(***************************************************************************)

Op(ax, name, arg) == [ax |-> ax, op |-> name, arg |-> arg]

\* the four Rectangle handles of the map legend
LegendElements ==
    <<[fc |-> COLORS.enhance_strong, label |-> "< -10%"],
      [fc |-> COLORS.enhance_weak, label |-> "-10% to 0%"],
      [fc |-> COLORS.suppress_weak, label |-> "0% to 10%"],
      [fc |-> COLORS.suppress_strong, label |-> "> 10%"]>>

\* the axes set-up shared by both map panels
MapExtentOps(ax) ==
    <<Op(ax, "set_xlim", <<-18000000, 18000000>>),
      Op(ax, "set_ylim", <<-8000000, 9000000>>)>>

MapTickOps(ax) ==
    <<Op(ax, "set_xticks", <<-18000000, -9000000, 0, 9000000, 18000000>>),
      Op(ax, "set_xticklabels", <<"-180", "-90", "0", "90", "180">>),
      Op(ax, "set_yticks", <<-6000000, -3000000, 0, 3000000, 6000000>>),
      Op(ax, "set_yticklabels", <<"-60", "-30", "0", "30", "60">>)>>

\* the annotation f"{enhancement_pct:.1f}% of cities\nshow enhancement"
EnhancementText(ax, pct) ==
    Op(ax, "text", [xy |-> <<2, 95>>, s |-> "pct of cities show enhancement", pct |-> pct])

\* composite_figure1.add_map_legend
AddMapLegend(ax) ==
    <<Op(ax, "legend", [handles |-> LegendElements, loc |-> "lower right",
                        bbox_to_anchor |-> <<>>, title |-> "Urban Impact"])>>

\* composite_figure1.plot_global_map after the percentage
PlotGlobalMapDraw(ax, points, cs, pct) ==
    <<Op(ax, "plot_points", [points |-> points, c |-> cs, markersize |-> 3]),
      Op(ax, "add_basemap", "PositronNoLabels")>>
    \o MapExtentOps(ax) \o MapTickOps(ax)
    \o <<Op(ax, "set_title", "Global Distribution"), EnhancementText(ax, pct)>>
    \o AddMapLegend(ax)

\* a variant that hands the tuple over as the location: the legend's lower
\* left corner, not its centre, is put on the point
MapOnlyLegendCorner(ax, position) ==
    <<Op(ax, "legend", [handles |-> LegendElements,
                        loc |-> IF position.type = "tuple" THEN "lower left" ELSE position.s,
                        bbox_to_anchor |-> position.t, title |-> "Urban Impact"])>>

\* the legend of create_global_map_only: a tuple anchors the legend's centre,
\* anything else is the location
MapOnlyLegend(ax, position) ==
    IF position.type = "tuple"
    THEN <<Op(ax, "legend", [handles |-> LegendElements, loc |-> "center",
                             bbox_to_anchor |-> position.t, title |-> "Urban Impact"])>>
    ELSE <<Op(ax, "legend", [handles |-> LegendElements, loc |-> position.s,
                             bbox_to_anchor |-> <<>>, title |-> "Urban Impact"])>>

\* figure1_components.create_global_map_only after the percentage
CreateGlobalMapOnlyDraw(ax, points, cs, pct, showText, position) ==
    <<Op(ax, "plot_points", [points |-> points, c |-> cs, markersize |-> 20]),
      Op(ax, "add_basemap", "PositronNoLabels")>>
    \o MapExtentOps(ax)
    \o <<Op(ax, "set_aspect", "auto")>>
    \o MapTickOps(ax)
    \o <<Op(ax, "set_title", "Global Distribution (2020)")>>
    \o (IF showText THEN <<EnhancementText(ax, pct)>> ELSE <<>>)
    \o MapOnlyLegend(ax, position)

\* figure1_components.create_temporal_stability_inset
TemporalStabilityInsetOps(parent, table) ==
    LET avg == SeriesMean(table.enhancement_pct)
    IN  <<Op(parent, "inset_axes", <<62, 65, 35, 28>>),
          Op("inset_ax", "twinx", "inset_ax2"),
          Op("inset_ax", "plot", [x |-> table.year, y |-> table.enhancement_pct]),
          Op("inset_ax2", "plot", [x |-> table.year, y |-> table.n_cities]),
          Op("inset_ax", "axhline", avg),
          Op("inset_ax", "text", [xy |-> <<2002, "avg + 0.5">>, s |-> "avg%", avg |-> avg]),
          Op("inset_ax", "set_xlim", <<2000, 2021>>),
          Op("inset_ax", "set_ylim", <<55, 70>>),
          Op("inset_ax", "set_xticks", <<2001, 2010, 2020>>),
          Op("inset_ax", "set_xticklabels", <<"2001", "2010", "2020">>),
          Op("inset_ax", "set_yticks", <<55, 60, 65, 70>>),
          Op("inset_ax", "set_yticklabels", <<"55%", "60%", "65%", "70%">>),
          Op("inset_ax", "set_ylabel", "Enhancement %"),
          Op("inset_ax", "tick_params", "y"),
          Op("inset_ax2", "set_ylim", <<480, 550>>),
          Op("inset_ax2", "set_yticks", <<480, 500, 520, 540, 560>>),
          Op("inset_ax2", "set_yticklabels", <<"480", "500", "520", "540", "560">>),
          Op("inset_ax2", "set_ylabel", "Number of Cities"),
          Op("inset_ax2", "tick_params", "y"),
          Op("inset_ax", "grid", TRUE),
          Op("inset_ax", "set_facecolor", "white"),
          Op("inset_ax", "set_alpha", 95)>>

\* the statistics behind the box of create_temporal_stability_standalone
StabilityStats(table) ==
    [mean       |-> SeriesMean(table.enhancement_pct),
     var        |-> SeriesVar(table.enhancement_pct),
     min        |-> SeriesMin(table.enhancement_pct),
     max        |-> SeriesMax(table.enhancement_pct),
     avg_cities |-> SeriesMean(table.n_cities)]

\* figure1_components.create_temporal_stability_standalone
TemporalStabilityStandaloneOps(ax, table, showStats, position) ==
    <<Op(ax, "twinx", "ax2"),
      Op(ax, "fill_between", [x |-> table.year, lo |-> 0, hi |-> table.enhancement_pct]),
      Op(ax, "plot", [x |-> table.year, y |-> table.enhancement_pct]),
      Op("ax2", "plot", [x |-> table.year, y |-> table.n_cities]),
      Op(ax, "set_xlim", <<2000, 2021>>),
      Op(ax, "set_ylim", <<55, 70>>),
      Op(ax, "set_xticks", <<2001, 2005, 2010, 2015, 2020>>),
      Op(ax, "set_xlabel", "Year"),
      Op(ax, "set_ylabel", "Enhancement %"),
      Op(ax, "tick_params", "y"),
      Op(ax, "tick_params", "x"),
      Op("ax2", "set_ylim", <<480, 550>>),
      Op("ax2", "set_ylabel", "Number of Cities"),
      Op("ax2", "tick_params", "y"),
      Op(ax, "set_title", "20-Year Temporal Stability of Sunset Enhancement"),
      Op(ax, "grid", TRUE),
      Op(ax, "legend", [handles |-> <<"Enhancement %", "Number of Cities">>,
                        loc |-> "upper right", bbox_to_anchor |-> <<>>, title |-> ""])>>
    \o (IF showStats
        THEN <<Op(ax, "text", [xy |-> position, s |-> "stats", stats |-> StabilityStats(table)])>>
        ELSE <<>>)

\* composite_figure1.plot_temporal_comparison
PlotTemporalComparison(ax) ==
    <<Op(ax, "plot", [y |-> "urban_mean", label |-> "Urban Area"]),
      Op(ax, "plot", [y |-> "rural_mean", label |-> "Rural Area"]),
      Op(ax, "fill_between", <<"urban_low", "urban_high">>),
      Op(ax, "fill_between", <<"rural_low", "rural_high">>),
      Op(ax, "axvline", 856),
      Op(ax, "text", [xy |-> <<856, "0.95 * ylim[1]">>, s |-> "Sunset"]),
      Op(ax, "set_xticks", <<143, 856>>),
      Op(ax, "set_xticklabels", <<"Midday", "">>),
      Op(ax, "set_ylabel", "Count of wet hour"),
      Op(ax, "set_ylim", <<68, 98>>),
      Op(ax, "set_yticks", <<70, 80, 90>>),
      Op(ax, "set_title", "Light Precipitation (0.2-0.5 mm/hr)"),
      Op(ax, "legend", [handles |-> <<"Urban Area", "Rural Area">>, loc |-> "upper left",
                        bbox_to_anchor |-> <<>>, title |-> ""]),
      Op(ax, "plot_marker", <<856, "urban_mean[856]">>)>>

\* A mean series of 1000 samples, in tenths, held as the (index, value) pairs
\* of the samples that stand out of the level the others have.
SeriesLevel == 30

At(series, i) ==
    IF \E k \in 1..Len(series) : series[k][1] = i
    THEN series[CHOOSE k \in 1..Len(series) : series[k][1] = i][2]
    ELSE SeriesLevel

\* np.argmax(series[lo:hi]) + lo: the first index of the largest sample
ArgMax(series, lo, hi) ==
    LET samples == {At(series, j) : j \in lo..(hi - 1)}
        largest == CHOOSE v \in samples : \A w \in samples : w <= v
        places  == {i \in lo..(hi - 1) : At(series, i) = largest}
    IN  CHOOSE i \in places : \A j \in places : i <= j

\* composite_figure1.plot_urban_only
PlotUrbanOnly(ax, mean) ==
    LET midday_peak_idx == ArgMax(mean, 400, 500)
        sunset_peak_idx == 856
    IN
    <<Op(ax, "plot", [y |-> mean, label |-> "Precipitation only in Urban Area"]),
      Op(ax, "fill_between", <<"turban_low", "turban_high">>),
      Op(ax, "axvline", 856),
      Op(ax, "text", [xy |-> <<856, "0.95 * ylim[1]">>, s |-> "Sunset"]),
      Op(ax, "plot_marker", <<midday_peak_idx, At(mean, midday_peak_idx)>>),
      Op(ax, "plot_marker", <<sunset_peak_idx, At(mean, sunset_peak_idx)>>),
      Op(ax, "set_xticks", <<143, 856>>),
      Op(ax, "set_xticklabels", <<"Midday", "">>),
      Op(ax, "set_ylabel", "Count of wet hour"),
      Op(ax, "set_ylim", <<28, 42>>),
      Op(ax, "set_yticks", <<30, 35, 40>>),
      Op(ax, "set_title", "Urban-Specific Events"),
      Op(ax, "legend", [handles |-> <<"Precipitation only in Urban Area">>, loc |-> "upper left",
                        bbox_to_anchor |-> <<>>, title |-> ""])>>

\* the value of a display toggle: True unless the keyword was passed as False
Shown(off, toggle) == toggle \notin off

\* the axes set-up shared by create_urban_rural_comparison and
\* create_urban_only_events, from set_xticks to the legend
ComparisonAxesOps(ax, off, y_lim, y_ticks, intensity_label) ==
    <<Op(ax, "set_xticks", <<143, 856>>)>>
    \o (IF Shown(off, "show_xlabel")
        THEN <<Op(ax, "set_xticklabels", <<"Midday", "Sunset">>),
               Op(ax, "set_fontweight", <<2, "bold">>)>>
        ELSE <<Op(ax, "set_xticklabels", <<>>)>>)
    \o (IF Shown(off, "show_ylabel") THEN <<Op(ax, "set_ylabel", "Count of wet hour")>> ELSE <<>>)
    \o <<Op(ax, "set_ylim", y_lim), Op(ax, "set_yticks", y_ticks)>>
    \o (IF Shown(off, "show_title") THEN <<Op(ax, "set_title", intensity_label)>> ELSE <<>>)
    \o (IF Shown(off, "show_legend")
        THEN <<Op(ax, "legend", [loc |-> "lower left", bbox_to_anchor |-> <<20, 2>>])>>
        ELSE <<>>)

\* figure1_components.create_urban_rural_comparison with the default limits
CreateUrbanRuralComparison(ax, off) ==
    <<Op(ax, "plot", [y |-> "urban_mean", label |-> "Urban"]),
      Op(ax, "plot", [y |-> "rural_mean", label |-> "Rural"]),
      Op(ax, "fill_between", <<"urban_low", "urban_high">>),
      Op(ax, "fill_between", <<"rural_low", "rural_high">>),
      Op(ax, "axvline", 856)>>
    \o ComparisonAxesOps(ax, off, <<68, 98>>, <<70, 80, 90>>, "Light Precipitation (0.2-0.5 mm/hr)")

\* figure1_components.create_urban_only_events with the default limits
CreateUrbanOnlyEvents(ax, mean, off) ==
    <<Op(ax, "plot", [y |-> mean, label |-> "Urban Only"]),
      Op(ax, "fill_between", <<"turban_low", "turban_high">>),
      Op(ax, "axvline", 856)>>
    \o ComparisonAxesOps(ax, off, <<28, 42>>, <<30, 35, 40>>, "Urban-Specific Events")

\* the panels of the composite figure, left to right, and their letters
PanelAxes == <<"ax1", "ax2", "ax3">>

PanelLetters == <<"a", "b", "c">>

\* the labelling loop of create_composite_figure: zip(axes, letters)
PanelLabelOps ==
    [i \in 1..Len(PanelAxes) |->
        Op(PanelAxes[i], "text", [xy |-> <<2, 98>>, s |-> PanelLetters[i]])]

\* str.replace(old, new) on a path held as its pieces
StrReplace(path, old, new) ==
    [i \in 1..Len(path) |-> IF path[i] = old THEN new ELSE path[i]]

(***************************************************************************)
(* State: one top-level call, its arguments, the files it reads and        *)
(* writes, its locals, what it printed and drew, and how it ended.         *)
(***************************************************************************)

VARIABLES
    call,                   \* the function called
    pc,                     \* where the call stands: start, ..., done or raised
    err,                    \* the exception that ended the call, or "none"
    ret,                    \* the value returned
    stdout,                 \* what was printed
    files,                  \* data/spa_<year>.txt for every year: exists, rows
    temporal_npy,           \* whether the .npy series files exist
    output_path,            \* argument of create_composite_figure
    written,                \* paths handed to savefig, in order
    fig_open,               \* a figure was created and not closed
    spatial,                \* the spatial array (argument or loaded)
    sorted,                 \* rows after the argsort
    colors,                 \* colour list of the classifier
    enhancement_count,
    enhancement_pct,
    map_ret,                \* what the map panel function returned
    show_enhancement_text,
    legend_position,
    log,                    \* draw calls in the order made
    year,                   \* argument of data_loader.load_spatial_data
    yr,                     \* its loop variable
    spatial_data,           \* its dict, as (key, value) pairs in insertion order
    intensity_key,
    data_type,
    stability,              \* the DataFrame given to the stability plots
    show_stats_box,
    turban_mean,            \* the urban-only mean series (argument or loaded)
    off                     \* the display toggles passed as False, by keyword

vars ==
    <<call, pc, err, ret, stdout, files, temporal_npy, output_path, written, fig_open,
      spatial, sorted, colors, enhancement_count, enhancement_pct, map_ret,
      show_enhancement_text, legend_position, log, year, yr, spatial_data,
      intensity_key, data_type, stability, show_stats_box, turban_mean, off>>

\* the rows of the yearly file as shipped: two cities
YearRows(y) == RowsOf(<<y - 2010, T2>>)

Present(rows) == [exists |-> TRUE, rows |-> rows]

Absent == [exists |-> FALSE, rows |-> <<>>]

AllFiles == [y \in Years |-> Present(YearRows(y))]

DefaultPath == <<"figures/figure1_composite", ".pdf">>

OutputPaths == {DefaultPath, <<"figures/figure1_composite", ".png">>}

\* what a map panel function returned: the type of the object and, for a
\* float, its value
Returned(type, v) == [type |-> type, v |-> v]

\* samples that may stand out: around the window 400..499 and at sunset
PeakPlaces == {399, 400, 450, 499, 500, 856}

PeakValues == {35, 40}

DefaultSeries == <<<<450, 35>>, <<856, 40>>>>

\* series with no, one or two samples above the level
TurbanSeries ==
    {<<>>}
    \cup {<<<<p, v>>>> : p \in PeakPlaces, v \in PeakValues}
    \cup {s \in {<<<<p, v>>, <<q, w>>>> :
                    p \in PeakPlaces, q \in PeakPlaces, v \in PeakValues, w \in PeakValues} :
             s[1][1] < s[2][1]}

Toggles == {"show_legend", "show_title", "show_ylabel", "show_xlabel"}

\* an argument that may be a str, an int or a tuple: its type and its value
PyStr(v) == [type |-> "str", s |-> v, n |-> 0, t |-> <<>>]

PyInt(v) == [type |-> "int", s |-> "", n |-> v, t |-> <<>>]

PyTuple(v) == [type |-> "tuple", s |-> "", n |-> 0, t |-> v]

LegendPositions == {PyStr("lower right"), PyStr("upper left"), PyTuple(<<70, 20>>)}

\* arrays a caller can hand to the map panel: loaded from a file, or built
Arrays == {Loadtxt(d) : d \in Datasets} \cup {Array2D(d) : d \in Datasets}

\* the arguments' defaults
DefaultInputs ==
    [call                  |-> "none",
     files                 |-> AllFiles,
     temporal_npy          |-> TRUE,
     output_path           |-> DefaultPath,
     spatial               |-> Array2D(<<>>),
     show_enhancement_text |-> FALSE,
     legend_position       |-> PyStr("lower right"),
     year                  |-> PyInt(2020),
     intensity_key         |-> "low",
     data_type             |-> "urban_rural",
     stability             |-> TemporalStability,
     show_stats_box        |-> FALSE,
     turban_mean           |-> DefaultSeries,
     off                   |-> {}]

CompositeInputs ==
    {[DefaultInputs EXCEPT !.call = "create_composite_figure",
                           !.files = [AllFiles EXCEPT ![2020] = f],
                           !.output_path = p] :
        f \in {Present(d) : d \in Datasets} \cup {Absent}, p \in OutputPaths}
    \cup {[DefaultInputs EXCEPT !.call = "create_composite_figure", !.temporal_npy = FALSE]}
    \cup {[DefaultInputs EXCEPT !.call = "create_composite_figure", !.turban_mean = m] :
            m \in TurbanSeries}

MapInputs ==
    {[DefaultInputs EXCEPT !.call = "create_global_map_only",
                           !.spatial = a,
                           !.show_enhancement_text = t,
                           !.legend_position = l] :
        a \in Arrays, t \in BOOLEAN, l \in LegendPositions}
    \cup {[DefaultInputs EXCEPT !.call = "create_global_map_with_temporal_inset",
                                !.spatial = a] : a \in Arrays}
    \cup {[DefaultInputs EXCEPT !.call = c, !.spatial = Array2D(YearRows(LastYear)), !.off = o] :
            c \in {"create_global_map_only", "create_global_map_with_temporal_inset"},
            o \in SUBSET Toggles}

\* create_urban_rural_comparison and create_urban_only_events with any of
\* their four toggles passed as False
PanelInputs ==
    {[DefaultInputs EXCEPT !.call = "create_urban_rural_comparison", !.off = o] :
        o \in SUBSET Toggles}
    \cup {[DefaultInputs EXCEPT !.call = "create_urban_only_events",
                                !.turban_mean = m, !.off = o] :
            m \in TurbanSeries, o \in SUBSET Toggles}

RECURSIVE PickUpTo(_, _)
\* subsets of S with at most n elements
PickUpTo(S, n) ==
    IF n = 0 THEN {{}}
    ELSE LET fewer == PickUpTo(S, n - 1)
         IN  fewer \cup {m \cup {y} : m \in fewer, y \in S}

LoaderInputs ==
    {[DefaultInputs EXCEPT !.call = "load_spatial_data",
                           !.year = PyStr("all"),
                           !.files = [y \in Years |-> IF y \in missing THEN Absent
                                                      ELSE Present(YearRows(y))]] :
        missing \in PickUpTo(Years, MaxMissing)}
    \cup {[DefaultInputs EXCEPT !.call = "load_spatial_data",
                                !.year = PyInt(y),
                                !.files = IF there THEN AllFiles
                                          ELSE [AllFiles EXCEPT ![y] = Absent]] :
            y \in {FirstYear, LastYear}, there \in BOOLEAN}

AxisInputs ==
    {[DefaultInputs EXCEPT !.call = "get_y_axis_limits",
                           !.intensity_key = k,
                           !.data_type = d] : k \in IntensityKeys, d \in DataTypes}

StabilityInputs ==
    {[DefaultInputs EXCEPT !.call = c, !.stability = t, !.show_stats_box = b] :
        c \in {"create_temporal_stability_standalone"},
        t \in {TemporalStability} \cup {StabilityHead(k) : k \in 0..MaxN},
        b \in BOOLEAN}
    \cup {[DefaultInputs EXCEPT !.call = "create_temporal_stability_inset", !.stability = t] :
            t \in {TemporalStability} \cup {StabilityHead(k) : k \in 0..MaxN}}

Inputs ==
    CompositeInputs \cup MapInputs \cup PanelInputs \cup LoaderInputs \cup AxisInputs
    \cup StabilityInputs

Init ==
    \E in \in Inputs :
        /\ call = in.call
        /\ files = in.files
        /\ temporal_npy = in.temporal_npy
        /\ output_path = in.output_path
        /\ spatial = in.spatial
        /\ show_enhancement_text = in.show_enhancement_text
        /\ legend_position = in.legend_position
        /\ year = in.year
        /\ intensity_key = in.intensity_key
        /\ data_type = in.data_type
        /\ stability = in.stability
        /\ show_stats_box = in.show_stats_box
        /\ turban_mean = in.turban_mean
        /\ off = in.off
        /\ pc = "start"
        /\ err = "none"
        /\ ret = "none"
        /\ stdout = <<>>
        /\ written = <<>>
        /\ fig_open = FALSE
        /\ sorted = <<>>
        /\ colors = <<>>
        /\ enhancement_count = 0
        /\ enhancement_pct = DZero
        /\ map_ret = Returned("NoneType", DZero)
        /\ log = <<>>
        /\ yr = 0
        /\ spatial_data = <<>>

\* the arguments and the files on disk are only read
inputs ==
    <<call, files, temporal_npy, output_path, show_enhancement_text, legend_position,
      year, intensity_key, data_type, stability, show_stats_box, turban_mean, off>>

classifier == <<sorted, colors, enhancement_count, enhancement_pct>>

loader == <<yr, spatial_data>>

\* an exception leaves the call: nothing else changes
Raise(e) ==
    /\ pc' = "raised"
    /\ err' = e
    /\ UNCHANGED <<ret, written, fig_open, spatial, classifier, map_ret, log, loader>>

(***************************************************************************)
(* composite_figure1.create_composite_figure                               *)
(***************************************************************************)

\* load_temporal_data(): nine np.load calls
CCF_LoadTemporal ==
    /\ call = "create_composite_figure" /\ pc = "start"
    /\ stdout' = Append(stdout, "Loading data...")
    /\ IF temporal_npy
       THEN /\ pc' = "ccf_load_spatial"
            /\ UNCHANGED <<err, ret, written, fig_open, spatial, classifier, map_ret, log, loader>>
       ELSE Raise("FileNotFoundError")
    /\ UNCHANGED inputs

\* load_spatial_data(year=2020) of the script
CCF_LoadSpatial ==
    /\ pc = "ccf_load_spatial"
    /\ IF files[2020].exists
       THEN /\ spatial' = Loadtxt(files[2020].rows)
            /\ pc' = "ccf_figure"
            /\ UNCHANGED <<err, ret, written, fig_open, classifier, map_ret, log, loader>>
       ELSE Raise("FileNotFoundError")
    /\ UNCHANGED <<stdout, inputs>>

\* plt.figure, GridSpec, three add_subplot
CCF_CreateFigure ==
    /\ pc = "ccf_figure"
    /\ stdout' = stdout \o <<"Creating figure...", "Plotting global map...">>
    /\ fig_open' = TRUE
    /\ log' = log \o <<Op("fig", "add_subplot", "ax1"), Op("fig", "add_subplot", "ax2"),
                       Op("fig", "add_subplot", "ax3")>>
    /\ pc' = "pgm_classify"
    /\ UNCHANGED <<err, ret, written, spatial, classifier, map_ret, loader, inputs>>

\* the exception plot_global_map raises before it draws, or "none":
\* spatial_data[:, 2] needs two dimensions, the division a row
PlotGlobalMapError(a) ==
    IF Len(a.shape) < 2 THEN "IndexError"
    ELSE IF Len(a.rows) = 0 THEN "ZeroDivisionError"
    ELSE "none"

\* plot_global_map up to the percentage: argsort, the loop, the division
PGM_Classify ==
    /\ pc = "pgm_classify"
    /\ IF PlotGlobalMapError(spatial) # "none"
       THEN Raise(PlotGlobalMapError(spatial))
       ELSE \E s \in ArgsortChoices(spatial.rows) :
                LET acc          == PlotGlobalMapLoop(s, 1, EmptyAcc)
                    total_cities == Len(s)
                IN  /\ sorted' = s
                    /\ colors' = acc.colors
                    /\ enhancement_count' = acc.count
                    /\ enhancement_pct' = EnhancementPct(acc.count, total_cities)
                    /\ pc' = "pgm_draw"
                    /\ UNCHANGED <<err, ret, written, fig_open, spatial, map_ret, log, loader>>
    /\ UNCHANGED <<stdout, inputs>>

\* plot_global_map from the GeoDataFrame on; it returns the axes
PGM_Draw ==
    /\ pc = "pgm_draw"
    /\ log' = log \o PlotGlobalMapDraw("ax1", sorted, colors, enhancement_pct)
    /\ map_ret' = Returned("Axes", DZero)
    /\ stdout' = Append(stdout, "Plotting temporal comparison...")
    /\ pc' = "ccf_temporal"
    /\ UNCHANGED <<err, ret, written, fig_open, spatial, classifier, loader, inputs>>

CCF_Temporal ==
    /\ pc = "ccf_temporal"
    /\ log' = log \o PlotTemporalComparison("ax2")
    /\ stdout' = Append(stdout, "Plotting urban-only events...")
    /\ pc' = "ccf_urban_only"
    /\ UNCHANGED <<err, ret, written, fig_open, spatial, classifier, map_ret, loader, inputs>>

\* a variant that paints the labels before the third panel is drawn
CCF_UrbanOnlyLabelled ==
    /\ pc = "ccf_urban_only"
    /\ log' = log \o PanelLabelOps \o PlotUrbanOnly("ax3", turban_mean)
    /\ pc' = "ccf_save_pdf"
    /\ UNCHANGED <<err, ret, stdout, written, fig_open, spatial, classifier, map_ret, loader,
                   inputs>>

CCF_UrbanOnly ==
    /\ pc = "ccf_urban_only"
    /\ log' = log \o PlotUrbanOnly("ax3", turban_mean)
    /\ pc' = "ccf_labels"
    /\ UNCHANGED <<err, ret, stdout, written, fig_open, spatial, classifier, map_ret, loader,
                   inputs>>

\* a variant that takes the letters from a set, whose order of iteration
\* changes from run to run
CCF_LabelsFromSet ==
    /\ pc = "ccf_labels"
    /\ \E order \in {f \in [1..3 -> 1..3] : \A i, j \in 1..3 : f[i] = f[j] => i = j} :
          log' = log \o [i \in 1..3 |->
                            Op(PanelAxes[i], "text", [xy |-> <<2, 98>>, s |-> PanelLetters[order[i]]])]
    /\ pc' = "ccf_save_pdf"
    /\ UNCHANGED <<err, ret, stdout, written, fig_open, spatial, classifier, map_ret, loader,
                   inputs>>

\* the panel labels
CCF_Labels ==
    /\ pc = "ccf_labels"
    /\ log' = log \o PanelLabelOps
    /\ pc' = "ccf_save_pdf"
    /\ UNCHANGED <<err, ret, stdout, written, fig_open, spatial, classifier, map_ret, loader,
                   inputs>>

\* plt.savefig(output_path)
CCF_SavePdf ==
    /\ pc = "ccf_save_pdf"
    /\ stdout' = Append(stdout, "Saving figure...")
    /\ written' = Append(written, output_path)
    /\ log' = Append(log, Op("plt", "savefig", output_path))
    /\ pc' = "ccf_save_png"
    /\ UNCHANGED <<err, ret, fig_open, spatial, classifier, map_ret, loader, inputs>>

\* plt.savefig(output_path.replace('.pdf', '.png'))
CCF_SavePng ==
    /\ pc = "ccf_save_png"
    /\ LET png_path == StrReplace(output_path, ".pdf", ".png")
       IN  /\ written' = Append(written, png_path)
           /\ log' = Append(log, Op("plt", "savefig", png_path))
    /\ stdout' = stdout \o <<"Figure saved successfully!", "PDF", "PNG">>
    /\ pc' = "ccf_show"
    /\ UNCHANGED <<err, ret, fig_open, spatial, classifier, map_ret, loader, inputs>>

\* plt.show(); return fig.  Under an interactive backend show() returns once
\* the user has closed the window, which destroys the figure; under any
\* other backend it returns at once and the figure stays open.
CCF_Show ==
    /\ pc = "ccf_show"
    /\ log' = Append(log, Op("plt", "show", <<>>))
    /\ \E interactive \in BOOLEAN : fig_open' = ~interactive
    /\ ret' = "fig"
    /\ pc' = "done"
    /\ UNCHANGED <<err, stdout, written, spatial, classifier, map_ret, loader, inputs>>

(***************************************************************************)
(* figure1_components: the map panel, alone or with the inset              *)
(***************************************************************************)

MapCalls == {"create_global_map_only", "create_global_map_with_temporal_inset"}

\* a variant that tests for the empty array itself and raises ValueError
CreateGlobalMapOnlyErrorGuarded(a) ==
    IF Len(a.shape) < 2 THEN "IndexError"
    ELSE IF PyLen(a) = 0 THEN "ValueError"
    ELSE "none"

\* the exception create_global_map_only raises before it draws, or "none"
CreateGlobalMapOnlyError(a) ==
    IF Len(a.shape) < 2 THEN "IndexError"
    ELSE IF PyLen(a) = 0 THEN "ZeroDivisionError"
    ELSE "none"

\* create_global_map_only up to the percentage
GMO_Classify ==
    /\ call \in MapCalls /\ pc = "start"
    /\ IF off # {}
       THEN Raise("TypeError")
       ELSE IF CreateGlobalMapOnlyError(spatial) # "none"
       THEN Raise(CreateGlobalMapOnlyError(spatial))
       ELSE \E s \in ArgsortChoices(spatial.rows) :
                LET acc == CreateGlobalMapOnlyLoop(s, 1, EmptyAcc)
                IN  /\ sorted' = s
                    /\ colors' = acc.colors
                    /\ enhancement_count' = acc.count
                    /\ enhancement_pct' = EnhancementPct(acc.count, PyLen(spatial))
                    /\ pc' = "gmo_draw"
                    /\ UNCHANGED <<err, ret, written, fig_open, spatial, map_ret, log, loader>>
    /\ UNCHANGED <<stdout, inputs>>

\* create_global_map_only from the GeoDataFrame on; it returns the percentage
GMO_Draw ==
    /\ pc = "gmo_draw"
    /\ log' = log \o CreateGlobalMapOnlyDraw("ax", sorted, colors, enhancement_pct,
                                              show_enhancement_text, legend_position)
    /\ map_ret' = Returned("float", enhancement_pct)
    /\ IF call = "create_global_map_only"
       THEN ret' = enhancement_pct /\ pc' = "done"
       ELSE ret' = ret /\ pc' = "inset"
    /\ UNCHANGED <<err, stdout, written, fig_open, spatial, classifier, loader, inputs>>

\* create_temporal_stability_inset, called on its own or after the map
TSI_Inset ==
    /\ \/ pc = "inset"
       \/ call = "create_temporal_stability_inset" /\ pc = "start"
    /\ log' = log \o TemporalStabilityInsetOps("ax", stability)
    /\ ret' = IF call = "create_temporal_stability_inset"
              THEN <<"inset_ax", "inset_ax2">>
              ELSE map_ret.v
    /\ pc' = "done"
    /\ UNCHANGED <<err, stdout, written, fig_open, spatial, classifier, map_ret, loader, inputs>>

\* create_temporal_stability_standalone
TSS_Standalone ==
    /\ call = "create_temporal_stability_standalone" /\ pc = "start"
    /\ log' = log \o TemporalStabilityStandaloneOps("ax", stability, show_stats_box, <<2, 98>>)
    /\ ret' = "ax2"
    /\ pc' = "done"
    /\ UNCHANGED <<err, stdout, written, fig_open, spatial, classifier, map_ret, loader, inputs>>

\* create_urban_rural_comparison; it returns None
URC_Draw ==
    /\ call = "create_urban_rural_comparison" /\ pc = "start"
    /\ log' = log \o CreateUrbanRuralComparison("ax", off)
    /\ pc' = "done"
    /\ UNCHANGED <<err, ret, stdout, written, fig_open, spatial, classifier, map_ret, loader,
                   inputs>>

\* create_urban_only_events; it returns None
UOE_Draw ==
    /\ call = "create_urban_only_events" /\ pc = "start"
    /\ log' = log \o CreateUrbanOnlyEvents("ax", turban_mean, off)
    /\ pc' = "done"
    /\ UNCHANGED <<err, ret, stdout, written, fig_open, spatial, classifier, map_ret, loader,
                   inputs>>

(***************************************************************************)
(* data_loader                                                             *)
(***************************************************************************)

\* a variant that subscripts the table: KeyError on a key it lacks
GYAL_Subscript ==
    /\ call = "get_y_axis_limits" /\ pc = "start"
    /\ IF intensity_key \in DOMAIN LimitsTurban
       THEN /\ ret' = GetYAxisLimits(intensity_key, data_type)
            /\ pc' = "done"
            /\ UNCHANGED <<err, written, fig_open, spatial, classifier, map_ret, log, loader>>
       ELSE Raise("KeyError")
    /\ UNCHANGED <<stdout, inputs>>

GYAL_Call ==
    /\ call = "get_y_axis_limits" /\ pc = "start"
    /\ ret' = GetYAxisLimits(intensity_key, data_type)
    /\ pc' = "done"
    /\ UNCHANGED <<err, stdout, written, fig_open, spatial, classifier, map_ret, log, loader,
                   inputs>>

\* d[key] = value on a dict held as pairs in insertion order
RECURSIVE DictSet(_, _, _)
DictSet(d, key, value) ==
    IF d = <<>> THEN <<<<key, value>>>>
    ELSE IF d[1][1] = key THEN <<<<key, value>>>> \o Tail(d)
         ELSE <<d[1]>> \o DictSet(Tail(d), key, value)

\* load_spatial_data: the test of year, and the single-year branch
LSD_Begin ==
    /\ call = "load_spatial_data" /\ pc = "start"
    /\ IF year.type = "str" /\ year.s = "all"
       THEN /\ spatial_data' = <<>>
            /\ yr' = FirstYear
            /\ pc' = "lsd_loop"
            /\ UNCHANGED <<err, ret, written, fig_open, spatial, classifier, map_ret, log>>
       ELSE IF files[year.n].exists
            THEN /\ ret' = Loadtxt(files[year.n].rows)
                 /\ pc' = "done"
                 /\ UNCHANGED <<err, written, fig_open, spatial, classifier, map_ret, log, loader>>
            ELSE Raise("FileNotFoundError")
    /\ UNCHANGED <<stdout, inputs>>

\* a variant without the try: a missing file ends the call
LSD_IterUncaught ==
    /\ pc = "lsd_loop" /\ yr <= LastYear
    /\ IF files[yr].exists
       THEN /\ spatial_data' = DictSet(spatial_data, yr, Loadtxt(files[yr].rows))
            /\ yr' = yr + 1
            /\ UNCHANGED <<pc, err, ret, written, fig_open, spatial, classifier, map_ret, log>>
       ELSE Raise("FileNotFoundError")
    /\ UNCHANGED <<stdout, inputs>>

\* one pass of for yr in range(2001, 2021)
LSD_Iter ==
    /\ pc = "lsd_loop" /\ yr <= LastYear
    /\ IF files[yr].exists
       THEN /\ spatial_data' = DictSet(spatial_data, yr, Loadtxt(files[yr].rows))
            /\ stdout' = stdout
       ELSE /\ stdout' = Append(stdout, <<"Warning: not found", yr>>)
            /\ spatial_data' = spatial_data
    /\ yr' = yr + 1
    /\ UNCHANGED <<pc, err, ret, written, fig_open, spatial, classifier, map_ret, log, inputs>>

\* return spatial_data
LSD_Return ==
    /\ pc = "lsd_loop" /\ yr > LastYear
    /\ ret' = spatial_data
    /\ pc' = "done"
    /\ UNCHANGED <<err, stdout, written, fig_open, spatial, classifier, map_ret, log, loader,
                   inputs>>

Next ==
    \/ CCF_LoadTemporal
    \/ CCF_LoadSpatial
    \/ CCF_CreateFigure
    \/ PGM_Classify
    \/ PGM_Draw
    \/ CCF_Temporal
    \/ CCF_UrbanOnly
    \/ CCF_Labels
    \/ CCF_SavePdf
    \/ CCF_SavePng
    \/ CCF_Show
    \/ GMO_Classify
    \/ GMO_Draw
    \/ TSI_Inset
    \/ TSS_Standalone
    \/ URC_Draw
    \/ UOE_Draw
    \/ GYAL_Call
    \/ LSD_Begin
    \/ LSD_Iter
    \/ LSD_Return

Spec == Init /\ [][Next]_vars

(***************************************************************************)
(* Properties.                                                             *)
(***************************************************************************)

\* the classifier of the running call has produced its colours and percentage
Classified ==
    \/ call = "create_composite_figure"
         /\ pc \in {"pgm_draw", "ccf_temporal", "ccf_urban_only", "ccf_labels",
                    "ccf_save_pdf", "ccf_save_png", "ccf_show", "done"}
    \/ call \in MapCalls /\ pc \in {"gmo_draw", "inset", "done"}

\* the four categories as the specification names them, by their colour
StrongNegative == COLORS.enhance_strong

WeakNegative == COLORS.enhance_weak

WeakPositive == COLORS.suppress_weak

StrongPositive == COLORS.suppress_strong

Categories == {StrongNegative, WeakNegative, WeakPositive, StrongPositive}

\* the half-open interval rule for cut points t1 < 0 < t2
InCategory(c, v, t1, t2) ==
    \/ c = StrongNegative /\ v < t1
    \/ c = WeakNegative /\ t1 <= v /\ v < 0
    \/ c = WeakPositive /\ 0 <= v /\ v < t2
    \/ c = StrongPositive /\ v >= t2

\* C1: with t1 = -0.1 and t2 = 0.1 every value gets the category of its
\* half-open interval: below t1 strong-negative, from t1 up to 0 weak-negative,
\* from 0 up to t2 weak-positive, from t2 on strong-positive; so the values
\* t1, 0 and t2 themselves fall in the higher of their two neighbours.
C1_IntervalRule ==
    Classified =>
        /\ Len(colors) = Len(sorted)
        /\ \A i \in 1..Len(sorted) :
              LET v == sorted[i][3]
              IN  /\ v < -10 => colors[i] = StrongNegative
                  /\ (-10 <= v /\ v < 0) => colors[i] = WeakNegative
                  /\ (0 <= v /\ v < 10) => colors[i] = WeakPositive
                  /\ v >= 10 => colors[i] = StrongPositive

\* a classified dataset holding the three boundary values
C1_Witness ==
    /\ Classified
    /\ \E i, j, k \in 1..Len(sorted) :
          /\ sorted[i][3] = -10 /\ colors[i] = WeakNegative
          /\ sorted[j][3] = 0 /\ colors[j] = WeakPositive
          /\ sorted[k][3] = 10 /\ colors[k] = StrongPositive

\* cut points below and above zero
NegativeCuts == {-20, -10, -5, -1}

PositiveCuts == {1, 5, 10, 20}

\* C2: classification is total and unambiguous: for all cut points t1 < 0 < t2
\* exactly one of the four category predicates holds of every observation, the
\* classifier emits exactly one colour per observation, that of the one
\* category that holds, and as many colours as there are observations.
C2_TotalUnambiguous ==
    Classified =>
        /\ Len(colors) = Len(spatial.rows)
        /\ Len(sorted) = Len(spatial.rows)
        /\ \A i \in 1..Len(spatial.rows) :
              /\ i \in DOMAIN colors
              /\ colors[i] \in Categories
              /\ \A t1 \in NegativeCuts, t2 \in PositiveCuts :
                    Cardinality({c \in Categories : InCategory(c, sorted[i][3], t1, t2)}) = 1
              /\ {c \in Categories : InCategory(c, sorted[i][3], T1, T2)} = {colors[i]}

\* a classified dataset with observations in all four categories
C2_Witness ==
    /\ Classified
    /\ {colors[i] : i \in 1..Len(colors)} = Categories

\* observations classified weak-positive or strong-positive
RECURSIVE NumPositive(_, _)
NumPositive(cs, i) ==
    IF i = 0 THEN 0
    ELSE NumPositive(cs, i - 1) + (IF cs[i] \in {WeakPositive, StrongPositive} THEN 1 ELSE 0)

\* C3 as stated: the percentage equals exactly 100 * positives / total (the
\* float nearest to that quotient) and lies in [0, 100].
C3_ExactQuotient ==
    Classified =>
        /\ enhancement_pct = FDiv(100 * NumPositive(colors, Len(colors)), Len(spatial.rows))
        /\ DLe(DZero, enhancement_pct)
        /\ DLe(enhancement_pct, DoubleOfInt(100))

\* C3 amended: the count kept in the classifying pass is the number of
\* observations classified weak- or strong-positive; the percentage is the
\* float (count / total) * 100, the quotient rounded and then the product
\* rounded; it lies in [0, 100] and is the float nearest to 100 * count / total
\* or a neighbour of it.
C3_RoundedTwice ==
    Classified =>
        LET positives == NumPositive(colors, Len(colors))
            total     == Len(spatial.rows)
        IN  /\ enhancement_count = positives
            /\ enhancement_pct = FMulInt(FDiv(positives, total), 100)
            /\ DLe(DZero, enhancement_pct)
            /\ DLe(enhancement_pct, DoubleOfInt(100))
            /\ DAdjacent(enhancement_pct, FDiv(100 * positives, total))

\* one positive city of three: 33.33333333333333, not 33.333333333333336
C3_Witness ==
    /\ Classified
    /\ Len(spatial.rows) = 3
    /\ enhancement_count = 1
    /\ enhancement_pct # FDiv(100, 3)
    /\ DSucc(enhancement_pct) = FDiv(100, 3)

\* C4: the 10-city dataset under the cut points (-0.1, 0.1) gets, in order,
\* two strong-negative, two weak-negative, three weak-positive and three
\* strong-positive categories, and the percentage 60.0.
C4_TenCities ==
    (Classified /\ spatial.rows = RowsOf(TenCityValues)) =>
        /\ colors = <<StrongNegative, StrongNegative, WeakNegative, WeakNegative,
                      WeakPositive, WeakPositive, WeakPositive,
                      StrongPositive, StrongPositive, StrongPositive>>
        /\ enhancement_pct = DoubleOfInt(60)

C4_Witness ==
    /\ Classified
    /\ spatial.rows = RowsOf(TenCityValues)
    /\ Len(colors) = 10
    /\ call = "create_global_map_only"

\* a and b hold the same rows, each as often
SameRows(a, b) ==
    /\ Len(a) = Len(b)
    /\ \A i \in 1..Len(a) :
          Cardinality({j \in 1..Len(a) : a[j] = a[i]}) = Cardinality({j \in 1..Len(b) : b[j] = a[i]})

\* C5: the points handed to the draw call are the rows of the dataset in
\* non-decreasing order of value, the i-th colour is that of the i-th point,
\* and no strong-positive point comes before a point of a lower category.
C5_DrawnAscending ==
    \A k \in 1..Len(log) :
        log[k].op = "plot_points" =>
            LET points == log[k].arg.points
                cs     == log[k].arg.c
            IN  /\ SameRows(points, spatial.rows)
                /\ \A i, j \in 1..Len(points) : i < j => points[i][3] <= points[j][3]
                /\ Len(cs) = Len(points)
                /\ \A i \in 1..Len(points) : InCategory(cs[i], points[i][3], T1, T2)
                /\ \A i, j \in 1..Len(cs) : (i < j /\ cs[i] = StrongPositive) => cs[j] = StrongPositive

\* a dataset given out of order, drawn with a strong-positive point last
C5_Witness ==
    \E k \in 1..Len(log) :
        /\ log[k].op = "plot_points"
        /\ \E i, j \in 1..Len(spatial.rows) : i < j /\ spatial.rows[i][3] > spatial.rows[j][3]
        /\ spatial.rows[1][3] >= T2
        /\ log[k].arg.c[1] # StrongPositive
        /\ log[k].arg.c[Len(log[k].arg.c)] = StrongPositive

\* the classifier was entered and has finished, one way or the other
ClassifierRan ==
    \/ Classified
    \/ call = "create_composite_figure" /\ pc = "raised" /\ fig_open
    \/ call \in MapCalls /\ pc = "raised"

\* C6: given no observation the classifier signals DegenerateInputError
\* instead of dividing by zero, the call is aborted and no file is written.
C6_DegenerateInputError ==
    (ClassifierRan /\ Len(spatial.rows) = 0) =>
        /\ pc = "raised"
        /\ err = "DegenerateInputError"
        /\ written = <<>>

RecognizedKeys == {"low", "moderate", "other", "low_moderate", "all"}

\* C7: get_y_axis_limits looks the key up by exact match: a recognized key
\* gets its entry of the table of the domain kind, every other key gets
\* ((0, 10), [0, 2, 4, 6, 8, 10]), and the call never raises.
C7_AxisLimitsDefault ==
    call = "get_y_axis_limits" =>
        /\ pc # "raised"
        /\ pc = "done" =>
              /\ intensity_key \in RecognizedKeys =>
                    ret = IF data_type = "urban_rural"
                          THEN LimitsUrbanRural[intensity_key]
                          ELSE LimitsTurban[intensity_key]
              /\ intensity_key \notin RecognizedKeys =>
                    ret = <<<<0, 100>>, <<0, 20, 40, 60, 80, 100>>>>

C7_Witness ==
    /\ call = "get_y_axis_limits" /\ pc = "done"
    /\ intensity_key = "unknown_key" /\ data_type = "urban_rural"
    /\ ret = <<<<0, 100>>, <<0, 20, 40, 60, 80, 100>>>>

\* the statistics of the 20-year table as the stability plots computed them
StatsDrawn ==
    {log[k].arg.stats : k \in {n \in 1..Len(log) : log[n].op = "text" /\ log[n].arg.s = "stats"}}

AverageDrawn ==
    {log[k].arg : k \in {n \in 1..Len(log) : log[n].op = "axhline" /\ log[n].ax = "inset_ax"}}

\* |num / den - centre| <= 0.01, for a mean in tenths and a centre in thousandths
MeanWithin(mean, centre) ==
    /\ ~mean.nan
    /\ 100 * mean.num - centre * mean.den <= 10 * mean.den
    /\ centre * mean.den - 100 * mean.num <= 10 * mean.den

\* C8 as stated: the enhancement_pct column has a mean within 0.01 of 61.63,
\* the minimum 58.4 and the maximum 67.3.
C8_Mean6163 ==
    stability = TemporalStability =>
        /\ \A st \in StatsDrawn :
              MeanWithin(st.mean, 61630) /\ st.min = [nan |-> FALSE, v |-> 584]
                                         /\ st.max = [nan |-> FALSE, v |-> 673]
        /\ \A avg \in AverageDrawn : MeanWithin(avg, 61630)

\* C8 amended: the enhancement_pct column has a mean within 0.01 of 61.945,
\* the minimum 58.4 and the maximum 67.3.
C8_Mean61945 ==
    stability = TemporalStability =>
        /\ \A st \in StatsDrawn :
              MeanWithin(st.mean, 61945) /\ st.min = [nan |-> FALSE, v |-> 584]
                                         /\ st.max = [nan |-> FALSE, v |-> 673]
        /\ \A avg \in AverageDrawn : MeanWithin(avg, 61945)

C8_Witness ==
    /\ call = "create_temporal_stability_standalone" /\ pc = "done"
    /\ stability = TemporalStability
    /\ StatsDrawn # {}

RECURSIVE Ascending(_, _)
\* the years of S in ascending order, from year y on
Ascending(S, y) ==
    IF y > LastYear THEN <<>>
    ELSE (IF y \in S THEN <<y>> ELSE <<>>) \o Ascending(S, y + 1)

\* the years the loop has been through
Visited == IF pc = "lsd_loop" THEN FirstYear..(yr - 1) ELSE Years

\* C9: loading all years never raises; the loop goes through the years in
\* ascending order, prints one warning per missing year and keeps one entry
\* per year whose file exists, that year's own data, and returns exactly those.
C9_MissingYearsSkipped ==
    (call = "load_spatial_data" /\ year = PyStr("all")) =>
        /\ pc # "raised"
        /\ pc \in {"lsd_loop", "done"} =>
              LET there == {y \in Visited : files[y].exists}
                  gone  == {y \in Visited : ~files[y].exists}
              IN  /\ [i \in 1..Len(spatial_data) |-> spatial_data[i][1]] = Ascending(there, FirstYear)
                  /\ \A i \in 1..Len(spatial_data) :
                        spatial_data[i][2] = Loadtxt(files[spatial_data[i][1]].rows)
                  /\ stdout = [i \in 1..Cardinality(gone) |->
                                  <<"Warning: not found", Ascending(gone, FirstYear)[i]>>]
        /\ pc = "done" => ret = spatial_data

C9_Witness ==
    /\ call = "load_spatial_data" /\ year = PyStr("all") /\ pc = "done"
    /\ ~files[FirstYear].exists
    /\ Len(stdout) = 2
    /\ Len(ret) = 18

\* places of log holding a panel label, a panel's own drawing, a save
IsLabel(k) == log[k].op = "text" /\ log[k].arg.s \in {"a", "b", "c"}

LabelPlaces == {k \in 1..Len(log) : IsLabel(k)}

DrawPlaces == {k \in 1..Len(log) : log[k].ax \in {"ax1", "ax2", "ax3"} /\ ~IsLabel(k)}

SavePlaces == {k \in 1..Len(log) : log[k].op = "savefig"}

\* the drawing of the three panels is complete
PanelsDrawn ==
    /\ \E k \in DrawPlaces : log[k].ax = "ax1" /\ log[k].op = "legend"
    /\ \E k \in DrawPlaces : log[k].ax = "ax2" /\ log[k].op = "plot_marker"
    /\ \E k \in DrawPlaces : log[k].ax = "ax3" /\ log[k].op = "legend"

\* C10: in create_composite_figure the labels are painted after the drawing
\* of all three panels and before any save: no drawing on a panel follows a
\* label, no save precedes one, and once a file is saved each panel carries
\* exactly one label, a, b, c from left to right, at the same position.
C10_LabelsAfterDrawing ==
    call = "create_composite_figure" =>
        /\ \A l \in LabelPlaces : \A d \in DrawPlaces : d < l
        /\ \A l \in LabelPlaces : \A w \in SavePlaces : l < w
        /\ LabelPlaces # {} => PanelsDrawn
        /\ (written # <<>> \/ pc = "done") =>
              /\ Cardinality(LabelPlaces) = 3
              /\ \A i \in 1..3 :
                    \E l \in LabelPlaces :
                        /\ log[l].ax = <<"ax1", "ax2", "ax3">>[i]
                        /\ log[l].arg.s = <<"a", "b", "c">>[i]
                        /\ log[l].arg.xy = <<2, 98>>
                        /\ \A m \in LabelPlaces : log[m].ax = log[l].ax => m = l

C10_Witness ==
    /\ call = "create_composite_figure" /\ pc = "done"
    /\ Cardinality(LabelPlaces) = 3
    /\ Len(written) = 2

\* the piece of a path that savefig takes the format from, and the rest
Extension(path) == path[Len(path)]

BasePath(path) == SubSeq(path, 1, Len(path) - 1)

\* C11: for every output path one call of create_composite_figure writes
\* exactly two distinct files, a vector image and a raster image, whose paths
\* have the same base and differ only in the extension.
C11_TwoFilesOneBase ==
    (call = "create_composite_figure" /\ pc = "done") =>
        /\ Len(written) = 2
        /\ written[1] # written[2]
        /\ Extension(written[1]) = ".pdf"
        /\ Extension(written[2]) = ".png"
        /\ BasePath(written[1]) = BasePath(written[2])

\* the legend calls made on the map panel
MapLegends ==
    {k \in 1..Len(log) :
        /\ log[k].op = "legend"
        /\ \/ call \in MapCalls /\ log[k].ax = "ax"
           \/ call = "create_composite_figure" /\ log[k].ax = "ax1"}

FourEntries == <<"< -10%", "-10% to 0%", "0% to 10%", "> 10%">>

\* C12: create_global_map_only resolves legend_position so: an (x, y) tuple
\* is the point the legend is centred on, whatever named anchors exist; any
\* other value is the legend location itself.  Either way, and in
\* add_map_legend with its fixed 'lower right', the legend has the four
\* entries '< -10%', '-10% to 0%', '0% to 10%', '> 10%' in that order.
C12_LegendPlacement ==
    /\ \A k \in MapLegends :
          /\ [i \in 1..Len(log[k].arg.handles) |-> log[k].arg.handles[i].label] = FourEntries
          /\ call \in MapCalls =>
                IF legend_position.type = "tuple"
                THEN /\ log[k].arg.bbox_to_anchor = legend_position.t
                     /\ log[k].arg.loc = "center"
                ELSE /\ log[k].arg.bbox_to_anchor = <<>>
                     /\ log[k].arg.loc = legend_position.s
          /\ call = "create_composite_figure" =>
                log[k].arg.loc = "lower right" /\ log[k].arg.bbox_to_anchor = <<>>
    /\ (call \in MapCalls /\ pc \in {"inset", "done"}) => Cardinality(MapLegends) = 1

C12_Witness ==
    /\ call = "create_global_map_only" /\ pc = "done"
    /\ legend_position = PyTuple(<<70, 20>>)
    /\ \E k \in MapLegends : log[k].arg.bbox_to_anchor = <<70, 20>> /\ log[k].arg.loc = "center"

\* the annotations of the percentage that the map panel drew
Annotations ==
    {k \in 1..Len(log) : log[k].op = "text" /\ log[k].arg.s = "pct of cities show enhancement"}

\* C14: every map panel function (create_global_map_only,
\* create_global_map_with_temporal_inset, plot_global_map) returns the
\* percentage it computed from the dataset, the one its annotation shows, and
\* the inset does not change the returned value.
C14_PercentageReturned ==
    /\ (Classified /\ pc \notin {"pgm_draw", "gmo_draw"}) =>
          /\ map_ret = Returned("float", enhancement_pct)
          /\ \A k \in Annotations : log[k].arg.pct = map_ret.v
    /\ (call \in MapCalls /\ pc = "done") => ret = enhancement_pct

\* the panel builders of figure1_components: map, comparison, single-series
PanelBuilders ==
    MapCalls \cup {"create_urban_rural_comparison", "create_urban_only_events"}

\* title, legend, axis label and tick label calls, and the other calls
IsChrome(o) ==
    o.op \in {"set_title", "legend", "set_ylabel", "set_xticklabels", "set_fontweight"}

NotChrome(o) == ~IsChrome(o)

\* what the running builder draws when every toggle is left True
DrawnWithAllShown ==
    IF call = "create_urban_rural_comparison" THEN CreateUrbanRuralComparison("ax", {})
    ELSE IF call = "create_urban_only_events" THEN CreateUrbanOnlyEvents("ax", turban_mean, {})
    ELSE CreateGlobalMapOnlyDraw("ax", sorted, colors, enhancement_pct,
                                 show_enhancement_text, legend_position)
         \o (IF call = "create_global_map_with_temporal_inset"
             THEN TemporalStabilityInsetOps("ax", stability)
             ELSE <<>>)

\* C13: every panel builder (map, comparison, single-series) takes the
\* display toggles and honours them: with show_title False no title is set,
\* with show_legend False no legend is drawn, with the axis-label toggles
\* False no axis label and no tick label text is drawn, and everything else
\* (lines, bands, sunset line, limits, ticks) is drawn as with the toggles True.
C13_TogglesHonoured ==
    (call \in PanelBuilders /\ (pc = "done" \/ (pc = "raised" /\ err = "TypeError"))) =>
        /\ pc = "done"
        /\ "show_title" \in off => \A k \in 1..Len(log) : log[k].op # "set_title"
        /\ "show_legend" \in off => \A k \in 1..Len(log) : log[k].op # "legend"
        /\ "show_ylabel" \in off => \A k \in 1..Len(log) : log[k].op # "set_ylabel"
        /\ "show_xlabel" \in off =>
              \A k \in 1..Len(log) :
                  /\ log[k].op # "set_fontweight"
                  /\ log[k].op = "set_xticklabels" => log[k].arg = <<>>
        /\ SelectSeq(log, NotChrome) = SelectSeq(DrawnWithAllShown, NotChrome)

\* how far a call of create_composite_figure has come
StageOf ==
    [start |-> 0, ccf_load_spatial |-> 1, ccf_figure |-> 2, pgm_classify |-> 3,
     pgm_draw |-> 4, ccf_temporal |-> 5, ccf_urban_only |-> 6, ccf_labels |-> 7,
     ccf_save_pdf |-> 8, ccf_save_png |-> 9, ccf_show |-> 10, done |-> 11,
     raised |-> IF fig_open THEN 3 ELSE 0]

\* the colours and the percentage of a dataset, by the loop of plot_global_map
\* or of create_global_map_only, on the rows in the order s
ClassifiedBy(s) ==
    LET acc == IF call = "create_composite_figure"
               THEN PlotGlobalMapLoop(s, 1, EmptyAcc)
               ELSE CreateGlobalMapOnlyLoop(s, 1, EmptyAcc)
    IN  [colors |-> acc.colors, pct |-> IF s = <<>> THEN DZero ELSE EnhancementPct(acc.count, Len(s))]

\* everything create_composite_figure has drawn by stage n, as a function of
\* its inputs and of the order argsort gave the rows
ComposedLog(n) ==
    (IF n >= 3
     THEN <<Op("fig", "add_subplot", "ax1"), Op("fig", "add_subplot", "ax2"),
            Op("fig", "add_subplot", "ax3")>>
     ELSE <<>>)
    \o (IF n >= 5
        THEN LET c == ClassifiedBy(sorted) IN PlotGlobalMapDraw("ax1", sorted, c.colors, c.pct)
        ELSE <<>>)
    \o (IF n >= 6 THEN PlotTemporalComparison("ax2") ELSE <<>>)
    \o (IF n >= 7 THEN PlotUrbanOnly("ax3", turban_mean) ELSE <<>>)
    \o (IF n >= 8 THEN PanelLabelOps ELSE <<>>)
    \o (IF n >= 9 THEN <<Op("plt", "savefig", output_path)>> ELSE <<>>)
    \o (IF n >= 10 THEN <<Op("plt", "savefig", StrReplace(output_path, ".pdf", ".png"))>> ELSE <<>>)
    \o (IF n >= 11 THEN <<Op("plt", "show", <<>>)>> ELSE <<>>)

\* the values of the rows, in order
ValuesOf(rows) == [i \in 1..Len(rows) |-> rows[i][3]]

C16_FigureClosed ==
    (call = "create_composite_figure" /\ pc \in {"done", "raised"}) => ~fig_open

\* a single-series panel has been drawn, and the axes it was drawn on
SingleSeriesDrawn ==
    \/ call = "create_composite_figure"
         /\ pc \in {"ccf_labels", "ccf_save_pdf", "ccf_save_png", "ccf_show", "done"}
    \/ call = "create_urban_only_events" /\ pc = "done"

SingleSeriesAxes == IF call = "create_composite_figure" THEN "ax3" ELSE "ax"

\* the markers drawn on the single-series panel, as (index, value) pairs
MarkersDrawn ==
    {log[k].arg : k \in {n \in 1..Len(log) :
                            log[n].op = "plot_marker" /\ log[n].ax = SingleSeriesAxes}}

\* C17: every single-series panel builder (plot_urban_only and
\* create_urban_only_events) marks the sunset index 856 and the maximum of
\* the mean series in the window of sample indices [400, 500): a marker at
\* (i, mean[i]) with 400 <= i < 500, mean[i] >= mean[j] for every j of the
\* window, and i the first such index.
C17_WindowMaximumMarked ==
    SingleSeriesDrawn =>
        /\ <<856, At(turban_mean, 856)>> \in MarkersDrawn
        /\ \E m \in MarkersDrawn :
              /\ 400 <= m[1] /\ m[1] < 500
              /\ \A j \in 400..499 : At(turban_mean, j) <= At(turban_mean, m[1])
              /\ \A j \in 400..(m[1] - 1) : At(turban_mean, j) < At(turban_mean, m[1])
              /\ m[2] = At(turban_mean, m[1])

\* a classifier has been given the array spatial: plot_global_map inside
\* create_composite_figure, create_global_map_only in the map calls
ClassifierEntered ==
    \/ call = "create_composite_figure" /\ StageOf[pc] >= 3
    \/ call \in MapCalls /\ off = {} /\ pc # "start"

\* C18: plot_global_map and create_global_map_only are equivalent.  On every
\* dataset they fail alike (both on the empty one, with the same exception)
\* or they give the rows the same order, colour them alike and arrive at the
\* same count and percentage; what the running one has produced is what the
\* other produces on the same array.
C18_ClassifiersAgree ==
    ClassifierEntered =>
        /\ PlotGlobalMapError(spatial) = CreateGlobalMapOnlyError(spatial)
        /\ pc = "raised" => err = PlotGlobalMapError(spatial) /\ err = CreateGlobalMapOnlyError(spatial)
        /\ Classified =>
              /\ PlotGlobalMapError(spatial) = "none"
              /\ sorted \in ArgsortChoices(spatial.rows)
              /\ \A s \in ArgsortChoices(spatial.rows) :
                    LET p == PlotGlobalMapLoop(s, 1, EmptyAcc)
                        c == CreateGlobalMapOnlyLoop(s, 1, EmptyAcc)
                    IN  /\ p = c
                        /\ EnhancementPct(p.count, Len(s)) = EnhancementPct(c.count, PyLen(spatial))
              /\ LET p == PlotGlobalMapLoop(sorted, 1, EmptyAcc)
                     c == CreateGlobalMapOnlyLoop(sorted, 1, EmptyAcc)
                 IN  /\ colors = p.colors /\ colors = c.colors
                     /\ enhancement_count = p.count /\ enhancement_count = c.count
                     /\ enhancement_pct = EnhancementPct(p.count, Len(sorted))
                     /\ enhancement_pct = EnhancementPct(c.count, PyLen(spatial))

\* the 10-city dataset classified by create_global_map_only, as
\* plot_global_map classifies it
C18_Witness ==
    /\ call = "create_global_map_only" /\ pc = "done"
    /\ spatial = Array2D(RowsOf(TenCityValues))
    /\ colors = PlotGlobalMapLoop(sorted, 1, EmptyAcc).colors
    /\ enhancement_count = 6

\* both fail on the empty dataset
C18_EmptyWitness ==
    /\ call = "create_global_map_only" /\ pc = "raised"
    /\ spatial = Array2D(<<>>)
    /\ err = "ZeroDivisionError"
    /\ PlotGlobalMapError(spatial) = "ZeroDivisionError"

\* C19: get_y_axis_limits selects its table in two ways: exactly
\* 'urban_rural' selects the urban-vs-rural table, every other data_type
\* ('turban', 'urban_only', anything else) the urban-only table, without
\* error; and whatever it returns, the default entry included, has
\* min < max and ticks that increase strictly and lie within [min, max].
C19_TwoWayTable ==
    call = "get_y_axis_limits" =>
        /\ pc # "raised"
        /\ pc = "done" =>
              LET table == IF data_type = "urban_rural" THEN LimitsUrbanRural ELSE LimitsTurban
                  lim   == ret[1]
                  ticks == ret[2]
              IN  /\ ret = IF intensity_key \in DOMAIN table
                           THEN table[intensity_key]
                           ELSE <<<<0, 100>>, <<0, 20, 40, 60, 80, 100>>>>
                  /\ lim[1] < lim[2]
                  /\ \A i \in 1..(Len(ticks) - 1) : ticks[i] < ticks[i + 1]
                  /\ \A i \in 1..Len(ticks) : lim[1] <= ticks[i] /\ ticks[i] <= lim[2]

\* a data_type that is neither documented value gets the urban-only table
C19_Witness ==
    /\ call = "get_y_axis_limits" /\ pc = "done"
    /\ data_type = "urban_only" /\ intensity_key = "moderate"
    /\ ret = <<<<9, 13>>, <<9, 10, 11, 12, 13>>>>

====
